---- MODULE Spec2Model ----
(***************************************************************************)
(* gdb_mcp.py: the mcp-agent tool-use loop (AIAgentCommand), the           *)
(* conversation client it drives (MCPClient), the command safety filter    *)
(* (GDBCommandExecutor) and the one-shot commands that share the client    *)
(* (mcp-ask, mcp-explain, mcp-fix, mcp-setup).                             *)
(*                                                                         *)
(* A text is a sequence of characters, each a one-character string.  Two   *)
(* kinds of symbol stand for more than one character of the program's      *)
(* text: BQ, the backtick (a TLA+ string cannot hold it), and the fixed    *)
(* literals of the prompts (LitResults, LitCommand, ...), which the        *)
(* program only ever concatenates and never scans.                         *)
(***************************************************************************)
EXTENDS Integers, Sequences, FiniteSets, TLC

VARIABLES
    messages,    \* MCPClient.messages: the history, a sequence of [role, text]
    pc,          \* where AIAgentCommand.invoke stands: idle, loop, process,
                 \* completed, exhausted, aborted
    iteration,   \* invoke's local counter
    user_request,\* invoke's local: the prompt of iteration 1
    response,    \* invoke's local: the text handed to _process_agent_response
    cmd,         \* the top-level command invoked last
    log,         \* what the current command did, in order: the calls to the
                 \* debugger, the rejections, the sends, the operator notices
    processed,   \* per iteration of the run, the history index of the text parsed
    lastQuery,   \* the last MCPClient.query call: history length before it,
                 \* its prompt and the remote reply
    cmdIn,       \* the command string under classification (SpecSafe)
    tested,      \* whether is_safe_command has been applied to cmdIn
    safeOut,     \* its result
    parseIn,     \* the response text under parsing (SpecParse)
    parseOut     \* whether it has been parsed, what the four searches found and
                 \* the commands the for loop handled, in order

vars == <<messages, pc, iteration, user_request, response, cmd, log, processed, lastQuery,
          cmdIn, tested, safeOut, parseIn, parseOut>>

-----------------------------------------------------------------------------
(* Characters and str methods                                              *)

\* The backtick character.
BQ == "bq"

\* What str.strip() and str.split() take for whitespace.
Whitespace == {" ", "\t", "\n", "\r"}

UpperLetters == <<"A", "B", "C", "D", "E", "F", "G", "H", "I", "J", "K", "L", "M",
                  "N", "O", "P", "Q", "R", "S", "T", "U", "V", "W", "X", "Y", "Z">>

LowerLetters == <<"a", "b", "c", "d", "e", "f", "g", "h", "i", "j", "k", "l", "m",
                  "n", "o", "p", "q", "r", "s", "t", "u", "v", "w", "x", "y", "z">>

lower_char(c) ==
    IF \E i \in 1..Len(UpperLetters) : UpperLetters[i] = c
    THEN LowerLetters[CHOOSE i \in 1..Len(UpperLetters) : UpperLetters[i] = c]
    ELSE c

\* str.lower()
lower(s) == [i \in 1..Len(s) |-> lower_char(s[i])]

RECURSIVE lstrip(_)
lstrip(s) ==
    IF s = <<>> THEN s
    ELSE IF Head(s) \in Whitespace THEN lstrip(Tail(s)) ELSE s

RECURSIVE rstrip(_)
rstrip(s) ==
    IF s = <<>> THEN s
    ELSE IF s[Len(s)] \in Whitespace THEN rstrip(SubSeq(s, 1, Len(s) - 1)) ELSE s

\* str.strip()
strip(s) == rstrip(lstrip(s))

\* str.split(sep) for a one-character sep: every sep cuts, empty pieces are kept.
RECURSIVE split_sep(_, _)
split_sep(s, sep) ==
    IF \A i \in 1..Len(s) : s[i] # sep THEN <<s>>
    ELSE LET i == CHOOSE k \in 1..Len(s) :
                      s[k] = sep /\ \A j \in 1..(k - 1) : s[j] # sep
         IN  <<SubSeq(s, 1, i - 1)>> \o split_sep(SubSeq(s, i + 1, Len(s)), sep)

\* str.split(): cut at runs of whitespace, no empty pieces.
RECURSIVE split(_)
split(s) ==
    LET t == lstrip(s)
    IN  IF t = <<>> THEN <<>>
        ELSE LET n == IF \A i \in 1..Len(t) : t[i] \notin Whitespace THEN Len(t)
                      ELSE (CHOOSE k \in 1..Len(t) :
                               t[k] \in Whitespace
                               /\ \A j \in 1..(k - 1) : t[j] \notin Whitespace) - 1
             IN  <<SubSeq(t, 1, n)>> \o split(SubSeq(t, n + 1, Len(t)))

\* sep.join(parts)
RECURSIVE join(_, _)
join(parts, sep) ==
    IF parts = <<>> THEN <<>>
    ELSE IF Len(parts) = 1 THEN parts[1]
    ELSE parts[1] \o sep \o join(Tail(parts), sep)

\* Whether lit occurs in s at index i.
occurs_at(s, lit, i) ==
    /\ i >= 1
    /\ i + Len(lit) - 1 <= Len(s)
    /\ \A k \in 1..Len(lit) : s[i + k - 1] = lit[k]

-----------------------------------------------------------------------------
(* GDBCommandExecutor                                                      *)

unsafe_commands == {
    <<"q", "u", "i", "t">>,
    <<"e", "x", "i", "t">>,
    <<"d", "e", "t", "a", "c", "h">>,
    <<"k", "i", "l", "l">>,
    <<"s", "e", "t">>,
    <<"s", "h", "e", "l", "l">>,
    <<"s", "o", "u", "r", "c", "e">>,
    <<"d", "e", "f", "i", "n", "e">>,
    <<"d", "o", "c", "u", "m", "e", "n", "t">>,
    <<"h", "a", "n", "d", "l", "e">>,
    <<"s", "i", "g", "n", "a", "l">>,
    <<"a", "t", "t", "a", "c", "h">> }

\* A plausible slip: the first token compared as written, case not folded.
is_safe_command_case_sensitive(command) ==
    LET command_parts == split(strip(command))
    IN  IF command_parts = <<>> THEN FALSE
        ELSE command_parts[1] \notin unsafe_commands

is_safe_command(command) ==
    LET command_parts == split(strip(command))
    IN  IF command_parts = <<>> THEN FALSE
        ELSE lower(command_parts[1]) \notin unsafe_commands

\* The debugger's answer to one command: its output, or a gdb.error.
GdbOutcomes == {"output", "error"}

\* "명령어 실행 오류: " followed by the error's text
LitExecError == <<"Command execution error: gdb.error">>

\* what gdb.execute(command, to_string=True) printed
LitGdbOutput == <<"gdb output">>

execute_command(command, outcome) ==
    IF outcome = "output" THEN LitGdbOutput ELSE LitExecError

-----------------------------------------------------------------------------
(* MCPClient                                                               *)

\* add_message's role mapping: the label the remote API is given.
gemini_role(role) == IF role = "assistant" THEN "model" ELSE "user"

\* A plausible slip: the new message takes the place of the last one.
add_message_overwriting(msgs, role, content) ==
    IF msgs = <<>> THEN <<[role |-> gemini_role(role), text |-> content]>>
    ELSE [msgs EXCEPT ![Len(msgs)] = [role |-> gemini_role(role), text |-> content]]

add_message(msgs, role, content) ==
    Append(msgs, [role |-> gemini_role(role), text |-> content])

\* Whether the remote answer is one query() returns from: status 200 and a
\* payload holding candidates[0].content.parts[0].text.
reply_ok(reply) == reply.status = 200 /\ reply.hasText

\* A plausible slip: the failure is swallowed and an empty text returned.
query_swallowing(msgs, message, reply) ==
    LET sent == add_message(msgs, "user", message)
    IN  IF reply.status # 200 \/ ~reply.hasText
        THEN [messages |-> sent, raised |-> FALSE, text |-> <<>>]
        ELSE [messages |-> add_message(sent, "assistant", reply.text),
              raised |-> FALSE, text |-> reply.text]

\* A plausible slip: the prompt is appended only once the answer is in.
query_append_late(msgs, message, reply) ==
    IF reply.status # 200 \/ ~reply.hasText
    THEN [messages |-> msgs, raised |-> TRUE, text |-> <<>>]
    ELSE [messages |-> add_message(add_message(msgs, "user", message),
                                   "assistant", reply.text),
          raised |-> FALSE, text |-> reply.text]

\* query(message) against one remote answer: the history afterwards, whether
\* it raised, and the text it returned.
query(msgs, message, reply) ==
    LET sent == add_message(msgs, "user", message)
    IN  IF reply.status # 200
        THEN [messages |-> sent, raised |-> TRUE, text |-> <<>>]
        ELSE IF ~reply.hasText
        THEN [messages |-> sent, raised |-> TRUE, text |-> <<>>]
        ELSE [messages |-> add_message(sent, "assistant", reply.text),
              raised |-> FALSE, text |-> reply.text]

-----------------------------------------------------------------------------
(* The tagged-block protocol                                               *)

Fence == <<BQ, BQ, BQ>>

TagCommand == <<"g", "d", "b", "-", "c", "o", "m", "m", "a", "n", "d">>

TagAnalysis == <<"a", "n", "a", "l", "y", "s", "i", "s">>

TagNextStep == <<"n", "e", "x", "t", "-", "s", "t", "e", "p">>

TagComplete == <<"c", "o", "m", "p", "l", "e", "t", "e">>

\* A plausible slip: the group is greedy, (.*) for (.*?), and runs to the last
\* fence of the text.
re_search_greedy(tag, text) ==
    LET opening == Fence \o tag \o <<"\n">>
        closes(i) == {j \in (i + Len(opening))..Len(text) : occurs_at(text, Fence, j)}
        starts == {i \in 1..Len(text) : occurs_at(text, opening, i) /\ closes(i) # {}}
    IN  IF starts = {} THEN [found |-> FALSE, group |-> <<>>]
        ELSE LET i == CHOOSE a \in starts : \A b \in starts : a <= b
                 j == CHOOSE a \in closes(i) : \A b \in closes(i) : a >= b
             IN  [found |-> TRUE, group |-> SubSeq(text, i + Len(opening), j - 1)]

\* re.search(r'```<tag>\n(.*?)```', text, re.DOTALL): the leftmost opening
\* fence+tag+newline that some later fence closes, and the text up to the
\* first such fence.
re_search(tag, text) ==
    LET opening == Fence \o tag \o <<"\n">>
        closes(i) == {j \in (i + Len(opening))..Len(text) : occurs_at(text, Fence, j)}
        starts == {i \in 1..Len(text) : occurs_at(text, opening, i) /\ closes(i) # {}}
    IN  IF starts = {} THEN [found |-> FALSE, group |-> <<>>]
        ELSE LET i == CHOOSE a \in starts : \A b \in starts : a <= b
                 j == CHOOSE a \in closes(i) : \A b \in closes(i) : a <= b
             IN  [found |-> TRUE, group |-> SubSeq(text, i + Len(opening), j - 1)]

\* The four re.search calls of _process_agent_response on one text.
matches(text) ==
    [command |-> re_search(TagCommand, text),
     analysis |-> re_search(TagAnalysis, text),
     next_step |-> re_search(TagNextStep, text),
     complete |-> re_search(TagComplete, text)]

\* command_match.group(1).strip().split('\n')
command_lines(command_match) == split_sep(strip(command_match.group), "\n")

\* No text has been parsed.
NotParsed ==
    [done |-> FALSE,
     found |-> [command |-> [found |-> FALSE, group |-> <<>>],
                analysis |-> [found |-> FALSE, group |-> <<>>],
                next_step |-> [found |-> FALSE, group |-> <<>>],
                complete |-> [found |-> FALSE, group |-> <<>>]],
     acted |-> <<>>]

-----------------------------------------------------------------------------
(* AIAgentCommand                                                          *)

max_iterations == 10

\* "명령어 실행 결과:\n\n"
LitResults == <<"Command results:", "\n", "\n">>

\* "명령어: "
LitCommand == <<"Command: ">>

\* "\n결과:\n"
LitResult == <<"\n", "Result:", "\n">>

\* "안전하지 않은 명령어입니다: "
LitUnsafe == <<"Unsafe command: ">>

executed_record(c, result) == LitCommand \o c \o LitResult \o result

rejected_record(c) == LitUnsafe \o c

\* One entry of log.  op: exec (a call of execute_command), reject, send (a
\* call of query, ok or not), show (a block's text printed for the operator),
\* notice (the did-not-complete line), usage, error.
Event(op, arg, ok) == [op |-> op, arg |-> arg, ok |-> ok]

\* A plausible slip: the filter is not consulted.
run_commands_unfiltered(commands, outcomes) ==
    [results |-> [k \in 1..Len(commands) |->
                     executed_record(strip(commands[k]),
                                     execute_command(strip(commands[k]), outcomes[k]))],
     events |-> [k \in 1..Len(commands) |->
                     Event("exec", strip(commands[k]), outcomes[k] = "output")]]

\* The for loop over commands: the records and the calls made, in order.
\* outcomes[k] is the debugger's answer if line k is executed.
RECURSIVE run_from(_, _, _)
run_from(commands, outcomes, k) ==
    IF k > Len(commands) THEN [results |-> <<>>, events |-> <<>>]
    ELSE LET c == strip(commands[k])
             rest == run_from(commands, outcomes, k + 1)
         IN  IF c = <<>> THEN rest
             ELSE IF is_safe_command(c)
             THEN LET result == execute_command(c, outcomes[k])
                  IN  [results |-> <<executed_record(c, result)>> \o rest.results,
                       events |-> <<Event("exec", c, outcomes[k] = "output")>>
                                  \o rest.events]
             ELSE [results |-> <<rejected_record(c)>> \o rest.results,
                   events |-> <<Event("reject", c, TRUE)>> \o rest.events]

\* A plausible slip: each record is put in front of the earlier ones.
run_commands_reversed(commands, outcomes) ==
    LET ran == run_from(commands, outcomes, 1)
        n == Len(ran.results)
    IN  [results |-> [k \in 1..n |-> ran.results[n + 1 - k]], events |-> ran.events]

run_commands(commands, outcomes) == run_from(commands, outcomes, 1)

\* What the three printing blocks of _process_agent_response show.
shown(found) ==
    (IF found.analysis.found THEN <<Event("show", TagAnalysis, TRUE)>> ELSE <<>>)
    \o (IF found.next_step.found THEN <<Event("show", TagNextStep, TRUE)>> ELSE <<>>)
    \o (IF found.complete.found THEN <<Event("show", TagComplete, TRUE)>> ELSE <<>>)

\* A plausible slip: the completion check is made first and returns early.
process_agent_response_complete_first(msgs, found, outcomes, reply) ==
    [messages |-> msgs, events |-> shown(found), queried |-> FALSE,
     prompt |-> <<>>, raised |-> FALSE, done |-> found.complete.found]

\* A plausible slip: the completion signal is lost.
process_agent_response_never_done(msgs, found, outcomes, reply) ==
    [messages |-> msgs, events |-> shown(found), queried |-> FALSE,
     prompt |-> <<>>, raised |-> FALSE, done |-> FALSE]

\* A plausible slip: the results query is made whether or not a Command block
\* was found.
process_agent_response_always_send(msgs, found, outcomes, reply) ==
    LET ran == run_commands(command_lines(found.command), outcomes)
        prompt == LitResults \o join(ran.results, <<"\n", "\n">>)
        q == query(msgs, prompt, reply)
    IN  [messages |-> q.messages,
         events |-> ran.events \o <<Event("send", <<>>, reply_ok(reply))>>
                    \o (IF q.raised THEN <<>> ELSE shown(found)),
         queried |-> TRUE, prompt |-> prompt, raised |-> q.raised,
         done |-> ~q.raised /\ found.complete.found]

\* A plausible slip: the results are sent but the exchange is not kept in the
\* history.
process_agent_response_send_unrecorded(msgs, found, outcomes, reply) ==
    LET ran == run_commands(command_lines(found.command), outcomes)
        prompt == LitResults \o join(ran.results, <<"\n", "\n">>)
        q == query(msgs, prompt, reply)
    IN  IF found.command.found /\ q.raised
        THEN [messages |-> msgs,
              events |-> ran.events \o <<Event("send", <<>>, reply_ok(reply))>>,
              queried |-> FALSE, prompt |-> <<>>, raised |-> TRUE, done |-> FALSE]
        ELSE [messages |-> msgs,
              events |-> (IF found.command.found
                          THEN ran.events \o <<Event("send", <<>>, reply_ok(reply))>>
                          ELSE <<>>) \o shown(found),
              queried |-> FALSE, prompt |-> <<>>, raised |-> FALSE,
              done |-> found.complete.found]

\* A plausible slip: the results are sent only when there are any.
process_agent_response_send_if_results(msgs, found, outcomes, reply) ==
    LET command_match == found.command
        ran == run_commands(command_lines(command_match), outcomes)
        prompt == LitResults \o join(ran.results, <<"\n", "\n">>)
        q == query(msgs, prompt, reply)
        sends == command_match.found /\ ran.results # <<>>
    IN  IF sends /\ q.raised
        THEN [messages |-> q.messages,
              events |-> ran.events \o <<Event("send", <<>>, reply_ok(reply))>>,
              queried |-> TRUE, prompt |-> prompt, raised |-> TRUE, done |-> FALSE]
        ELSE [messages |-> IF sends THEN q.messages ELSE msgs,
              events |-> (IF sends
                          THEN ran.events \o <<Event("send", <<>>, reply_ok(reply))>>
                          ELSE <<>>) \o shown(found),
              queried |-> sends,
              prompt |-> IF sends THEN prompt ELSE <<>>,
              raised |-> FALSE,
              done |-> found.complete.found]

\* _process_agent_response(response), given what its four searches found
\* (found = matches(response)), against the debugger's answers and one remote
\* answer: the history and the log entries it leaves, whether it queried (and
\* with what prompt), whether that raised, and its return value.
process_agent_response(msgs, found, outcomes, reply) ==
    LET command_match == found.command
        ran == run_commands(command_lines(command_match), outcomes)
        results_text == join(ran.results, <<"\n", "\n">>)
        prompt == LitResults \o results_text
        q == query(msgs, prompt, reply)
    IN  IF command_match.found /\ q.raised
        THEN [messages |-> q.messages,
              events |-> ran.events \o <<Event("send", <<>>, reply_ok(reply))>>,
              queried |-> TRUE, prompt |-> prompt, raised |-> TRUE, done |-> FALSE]
        ELSE [messages |-> IF command_match.found THEN q.messages ELSE msgs,
              events |-> (IF command_match.found
                          THEN ran.events \o <<Event("send", <<>>, reply_ok(reply))>>
                          ELSE <<>>) \o shown(found),
              queried |-> command_match.found,
              prompt |-> IF command_match.found THEN prompt ELSE <<>>,
              raised |-> FALSE,
              done |-> found.complete.found]

-----------------------------------------------------------------------------
(* The environment: the operator, the debugger, the remote model           *)

\* How long a history mcp-ask, mcp-explain and mcp-fix are still started on.
MaxCarry == 3

\* How many commands of one run the debugger answers with a gdb.error.
MaxGdbErrors == 1

\* The operator's argument: none, or a task.
Args == {<<>>, <<"w", "h", "y">>}

InfoLocals == <<"i", "n", "f", "o", " ", "l", "o", "c", "a", "l", "s">>

Quit == <<"q", "u", "i", "t">>

Backtrace == <<"b", "t">>

KillOne == <<" ", " ", "K", "i", "l", "l", " ", "1">>

\* A Command block of one safe and one denylisted command.
RespCommands ==
    Fence \o TagCommand \o <<"\n">> \o InfoLocals \o <<"\n">> \o Quit \o <<"\n">> \o Fence

\* A Command block (a safe command, a blank line, a denylisted command in
\* another case and indented) followed by a Complete block.
RespCommandsComplete ==
    Fence \o TagCommand \o <<"\n">> \o Backtrace \o <<"\n", "\n">> \o KillOne
    \o <<"\n">> \o Fence \o <<"\n">>
    \o Fence \o TagComplete \o <<"\n", "o", "k", "\n">> \o Fence

\* A Complete block alone.
RespComplete == Fence \o TagComplete \o <<"\n", "d", "o", "n", "e", "\n">> \o Fence

\* An Analysis block alone.
RespAnalysis == Fence \o TagAnalysis \o <<"\n", "h", "m", "\n">> \o Fence

\* A Command block holding one whitespace-only line, a next-step block and a
\* Complete block.
RespBlankCommands ==
    Fence \o TagCommand \o <<"\n", " ", "\n">> \o Fence
    \o <<"\n">> \o Fence \o TagNextStep \o <<"\n", "g", "o", "\n">> \o Fence
    \o <<"\n">> \o Fence \o TagComplete \o <<"\n">> \o Fence

\* The texts the remote model answers with.
Responses == {RespCommands, RespCommandsComplete, RespComplete, RespAnalysis,
              RespBlankCommands}

\* One answer to requests.post: a status and, when the payload holds one, the text.
Replies ==
    {[status |-> 200, hasText |-> TRUE, text |-> r] : r \in Responses}
    \cup {[status |-> 200, hasText |-> FALSE, text |-> <<>>],
          [status |-> 500, hasText |-> FALSE, text |-> <<>>]}

-----------------------------------------------------------------------------
(* Prompts                                                                 *)

\* system_message
LitSystem == <<"system_message">>

\* "디버깅 에이전트 초기화 완료. 요청을 분석하겠습니다."
LitAck == <<"agent initialised">>

\* What _collect_debug_context() or _collect_limited_context() returned: the
\* snapshot's text, whichever of the two was taken.
Context == <<"context">>

\* user_request
agent_request(arg, context) == <<"Task: ">> \o arg \o <<"\n", "\n", "Context:", "\n">> \o context

ask_prompt(arg, context) == <<"Question: ">> \o arg \o <<"\n", "\n", "Context:", "\n">> \o context

explain_prompt == <<"Explain: ", "source", "disassembly">>

fix_prompt == <<"Fix: ">> \o Context

NoQuery == [made |-> FALSE, pre |-> 0, prompt |-> <<>>,
            reply |-> [status |-> 0, hasText |-> FALSE, text |-> <<>>]]

Queried(pre, prompt, reply) == [made |-> TRUE, pre |-> pre, prompt |-> prompt, reply |-> reply]

-----------------------------------------------------------------------------
(* AIAgentCommand.invoke                                                   *)

\* No command is running: a new one can be given.
AtRest == pc \in {"idle", "completed", "exhausted", "aborted"}

\* A plausible slip: the history is not cleared.
reset_keeping(msgs) == msgs

\* self.mcp_client.messages = []
reset(msgs) == <<>>

\* A plausible slip: the loop bound is off by one.
loop_continues_inclusive(it) == it <= max_iterations

\* while iteration < self.max_iterations
loop_continues(it) == it < max_iterations

\* A plausible slip: the limit is tested with > and is never met.
at_limit_strict(it) == it > max_iterations

\* if iteration >= self.max_iterations
at_limit(it) == it >= max_iterations

SafeVars == <<cmdIn, tested, safeOut, parseIn, parseOut>>

\* mcp-agent with no argument: the usage line is printed, nothing else.
AgentUsage ==
    /\ AtRest
    /\ UNCHANGED vars

\* mcp-agent <arg>, up to the while loop.
AgentInvoke(arg) ==
    /\ AtRest
    /\ arg # <<>>
    /\ messages' = add_message(add_message(reset(messages), "user", LitSystem),
                               "assistant", LitAck)
    /\ user_request' = agent_request(arg, Context)
    /\ iteration' = 0
    /\ pc' = "loop"
    /\ cmd' = "agent"
    /\ response' = <<>>
    /\ log' = <<>>
    /\ processed' = <<>>
    /\ lastQuery' = NoQuery
    /\ UNCHANGED SafeVars

\* Iteration 1: the request is sent.
LoopQuery(reply) ==
    /\ pc = "loop"
    /\ loop_continues(iteration)
    /\ iteration + 1 = 1
    /\ iteration' = iteration + 1
    /\ LET q == query(messages, user_request, reply)
       IN  /\ messages' = q.messages
           /\ log' = Append(log, Event("send", <<>>, reply_ok(reply)))
           /\ lastQuery' = Queried(Len(messages), user_request, reply)
           /\ IF q.raised
              THEN /\ pc' = "aborted"
                   /\ UNCHANGED <<response, processed>>
              ELSE /\ pc' = "process"
                   /\ response' = q.text
                   /\ processed' = Append(processed, Len(q.messages))
    /\ UNCHANGED <<user_request, cmd, SafeVars>>

\* A later iteration: the last message of the history is taken.
LoopReuse ==
    /\ pc = "loop"
    /\ loop_continues(iteration)
    /\ iteration + 1 # 1
    /\ iteration' = iteration + 1
    /\ response' = messages[Len(messages)].text
    /\ processed' = Append(processed, Len(messages))
    /\ pc' = "process"
    /\ UNCHANGED <<messages, user_request, cmd, log, lastQuery, SafeVars>>

\* The while condition fails: the loop is left without a completion signal.
LoopExit ==
    /\ pc = "loop"
    /\ ~loop_continues(iteration)
    /\ pc' = "exhausted"
    /\ UNCHANGED <<messages, iteration, user_request, response, cmd, log, processed,
                   lastQuery, SafeVars>>

\* The calls of execute_command in l that met a gdb.error.
gdb_errors(l) == Cardinality({k \in 1..Len(l) : l[k].op = "exec" /\ ~l[k].ok})

\* _process_agent_response(response) and the rest of the loop body; found is
\* matches(response).
Process(found, outcomes, reply) ==
    /\ pc = "process"
    /\ LET r == process_agent_response(messages, found, outcomes, reply)
       IN  /\ messages' = r.messages
           /\ lastQuery' = IF r.queried THEN Queried(Len(messages), r.prompt, reply)
                           ELSE lastQuery
           /\ IF r.raised
              THEN /\ pc' = "aborted"
                   /\ log' = log \o r.events
              ELSE IF r.done
              THEN /\ pc' = "completed"
                   /\ log' = log \o r.events
              ELSE /\ pc' = "loop"
                   /\ log' = log \o r.events
                             \o (IF at_limit(iteration)
                                 THEN <<Event("notice", <<>>, TRUE)>> ELSE <<>>)
    /\ gdb_errors(log') <= MaxGdbErrors
    /\ UNCHANGED <<iteration, user_request, response, cmd, processed, SafeVars>>

-----------------------------------------------------------------------------
(* The one-shot commands and mcp-setup                                     *)

\* A command that sends one prompt and prints the answer or the error.
OneShot(name, prompt, reply) ==
    /\ AtRest
    /\ Len(messages) <= MaxCarry
    /\ LET q == query(messages, prompt, reply)
       IN  /\ messages' = q.messages
           /\ log' = <<Event("send", <<>>, reply_ok(reply)),
                       Event(IF q.raised THEN "error" ELSE "show", <<>>, TRUE)>>
    /\ lastQuery' = Queried(Len(messages), prompt, reply)
    /\ pc' = "idle"
    /\ cmd' = name
    /\ iteration' = 0
    /\ user_request' = <<>>
    /\ response' = <<>>
    /\ processed' = <<>>
    /\ UNCHANGED SafeVars

\* mcp-ask with no argument: the usage line is printed, nothing else.
MCPAskUsage ==
    /\ AtRest
    /\ UNCHANGED vars

MCPAsk(arg, reply) ==
    /\ arg # <<>>
    /\ OneShot("ask", ask_prompt(arg, Context), reply)

\* mcp-explain <arg> when gdb.execute("list <arg>") meets a gdb.error: the
\* not-found line is printed, nothing else.
MCPExplainNotFound(arg) ==
    /\ AtRest
    /\ arg # <<>>
    /\ UNCHANGED vars

\* mcp-explain with no argument, or with one that gdb lists.
MCPExplain(arg, reply) == OneShot("explain", explain_prompt, reply)

MCPFix(reply) == OneShot("fix", fix_prompt, reply)

\* mcp-setup with no argument: the usage line is printed, nothing else.
MCPSetupUsage ==
    /\ AtRest
    /\ UNCHANGED vars

\* mcp-setup <key>: _initialize_mcp builds a new MCPClient and new commands.
MCPSetup ==
    /\ AtRest
    /\ messages' = <<>>
    /\ pc' = "idle"
    /\ cmd' = "setup"
    /\ log' = <<>>
    /\ iteration' = 0
    /\ user_request' = <<>>
    /\ response' = <<>>
    /\ processed' = <<>>
    /\ lastQuery' = NoQuery
    /\ UNCHANGED SafeVars

-----------------------------------------------------------------------------
(* The specification                                                       *)

Init ==
    /\ messages = <<>>
    /\ pc = "idle"
    /\ iteration = 0
    /\ user_request = <<>>
    /\ response = <<>>
    /\ cmd = "setup"
    /\ log = <<>>
    /\ processed = <<>>
    /\ lastQuery = NoQuery
    /\ cmdIn = <<>>
    /\ tested = FALSE
    /\ safeOut = FALSE
    /\ parseIn = <<>>
    /\ parseOut = NotParsed

Next ==
    \/ AgentUsage
    \/ \E arg \in Args : AgentInvoke(arg)
    \/ /\ pc = "loop"
       /\ \E reply \in Replies : LoopQuery(reply)
    \/ LoopReuse
    \/ LoopExit
    \/ /\ pc = "process"
       /\ LET found == matches(response)
          IN  \E reply \in Replies :
                 \E outcomes \in [1..Len(command_lines(found.command)) -> GdbOutcomes] :
                    Process(found, outcomes, reply)
    \/ MCPAskUsage
    \/ /\ AtRest
       /\ \E arg \in Args, reply \in Replies : MCPAsk(arg, reply)
    \/ \E arg \in Args : MCPExplainNotFound(arg)
    \/ /\ AtRest
       /\ \E arg \in Args, reply \in Replies : MCPExplain(arg, reply)
    \/ /\ AtRest
       /\ \E reply \in Replies : MCPFix(reply)
    \/ MCPSetupUsage
    \/ MCPSetup

Spec == Init /\ [][Next]_vars

-----------------------------------------------------------------------------
(* is_safe_command on its own: a command string is drawn, then classified  *)

\* How long the exhaustively enumerated command strings are.
MaxCmdLen == 3

\* str.upper(), to write the inputs
upper(s) ==
    [i \in 1..Len(s) |->
        IF \E k \in 1..Len(LowerLetters) : LowerLetters[k] = s[i]
        THEN UpperLetters[CHOOSE k \in 1..Len(LowerLetters) : LowerLetters[k] = s[i]]
        ELSE s[i]]

\* str.capitalize(), to write the inputs
capitalize(s) == IF s = <<>> THEN s ELSE upper(<<Head(s)>>) \o Tail(s)

\* Every string of at most n characters of alphabet.
RECURSIVE StringsUpTo(_, _)
StringsUpTo(alphabet, n) ==
    IF n = 0 THEN {<<>>}
    ELSE LET shorter == StringsUpTo(alphabet, n - 1)
         IN  shorter \cup {Append(t, c) : t \in shorter, c \in alphabet}

\* First tokens that are no denylisted command: other commands, and strings
\* one character away from a denylisted one.
OtherTokens == {
    <<"i", "n", "f", "o">>,
    <<"b", "t">>,
    <<"q", "u", "i">>,
    <<"q", "u", "i", "t", "s">>,
    <<"s", "e", "t", "t", "i", "n", "g">>,
    <<"u", "n", "s", "e", "t">>,
    <<"x", "/", "4", "x">> }

FirstTokens ==
    unsafe_commands
    \cup {upper(w) : w \in unsafe_commands}
    \cup {capitalize(w) : w \in unsafe_commands}
    \cup OtherTokens

LeadingSpace == {<<>>, <<" ">>, <<"\t", " ">>}

TrailingArgs == {<<>>, <<" ">>, <<" ", "1">>, <<"\t", "q", "u", "i", "t">>, <<"\n", "x">>}

CmdInputs ==
    StringsUpTo({"s", "e", "t", "S", " ", "\t"}, MaxCmdLen)
    \cup {lead \o w \o args : lead \in LeadingSpace, w \in FirstTokens, args \in TrailingArgs}

InitSafe ==
    /\ messages = <<>>
    /\ pc = "idle"
    /\ iteration = 0
    /\ user_request = <<>>
    /\ response = <<>>
    /\ cmd = "setup"
    /\ log = <<>>
    /\ processed = <<>>
    /\ lastQuery = NoQuery
    /\ cmdIn \in CmdInputs
    /\ tested = FALSE
    /\ safeOut = FALSE
    /\ parseIn = <<>>
    /\ parseOut = NotParsed

Classify ==
    /\ ~tested
    /\ tested' = TRUE
    /\ safeOut' = is_safe_command(cmdIn)
    /\ UNCHANGED <<messages, pc, iteration, user_request, response, cmd, log,
                   processed, lastQuery, cmdIn, parseIn, parseOut>>

NextSafe == Classify

SpecSafe == InitSafe /\ [][NextSafe]_vars

-----------------------------------------------------------------------------
(* The parsing of one response on its own: a text is drawn, then parsed    *)
(* as _process_agent_response parses it                                    *)

\* How many pieces the exhaustively enumerated texts are made of.
MaxPieces == 3

OpenCommand == Fence \o TagCommand \o <<"\n">>

OpenAnalysis == Fence \o TagAnalysis \o <<"\n">>

\* What the enumerated texts are made of: two openings, a bare fence, an
\* opening that lacks its newline, a command line with spaces around it, a
\* whitespace-only line, and a line without its newline.
Pieces == {
    OpenCommand,
    OpenAnalysis,
    Fence,
    Fence \o TagCommand \o <<" ">>,
    <<" ", "b", "t", " ", "\n">>,
    <<"\t", "\n">>,
    <<"u", "p">> }

\* Every concatenation of at most n pieces.
RECURSIVE PieceTexts(_)
PieceTexts(n) ==
    IF n = 0 THEN {<<>>}
    ELSE LET shorter == PieceTexts(n - 1)
         IN  shorter \cup {t \o piece : t \in shorter, piece \in Pieces}

\* A Command block of three lines, the middle one blank.
BlockThreeLines ==
    OpenCommand \o <<" ", "b", "t", " ", "\n", "\n", "\t", "u", "p", "\n">> \o Fence

\* A Command block of one denylisted command.
BlockQuit == OpenCommand \o Quit \o <<"\n">> \o Fence

\* A Command block that is never closed.
BlockUnterminated == OpenCommand \o InfoLocals \o <<"\n">>

BlockAnalysis == OpenAnalysis \o <<"h", "m", "\n">> \o Fence

BlockComplete == Fence \o TagComplete \o <<"\n", "o", "k", "\n">> \o Fence

Prose == <<"s", "e", "e", ":", "\n">>

Blocks == {<<>>, BlockThreeLines, BlockQuit, BlockUnterminated, BlockAnalysis,
           BlockComplete, Prose}

ParseInputs ==
    PieceTexts(MaxPieces)
    \cup {a \o b \o c : a \in Blocks, b \in Blocks, c \in Blocks}

InitParse ==
    /\ messages = <<>>
    /\ pc = "idle"
    /\ iteration = 0
    /\ user_request = <<>>
    /\ response = <<>>
    /\ cmd = "setup"
    /\ log = <<>>
    /\ processed = <<>>
    /\ lastQuery = NoQuery
    /\ cmdIn = <<>>
    /\ tested = FALSE
    /\ safeOut = FALSE
    /\ parseIn \in ParseInputs
    /\ parseOut = NotParsed

\* The four searches, and the for loop over the Command block's lines with a
\* debugger that answers every command.
Parse ==
    /\ ~parseOut.done
    /\ LET found == matches(parseIn)
           commands == command_lines(found.command)
           ran == run_commands(commands, [k \in 1..Len(commands) |-> "output"])
       IN  parseOut' = [done |-> TRUE,
                        found |-> found,
                        acted |-> IF found.command.found
                                  THEN [k \in 1..Len(ran.events) |-> ran.events[k].arg]
                                  ELSE <<>>]
    /\ UNCHANGED <<messages, pc, iteration, user_request, response, cmd, log,
                   processed, lastQuery, cmdIn, tested, safeOut, parseIn>>

NextParse == Parse

SpecParse == InitParse /\ [][NextParse]_vars

-----------------------------------------------------------------------------
(* Properties of a run of mcp-agent                                        *)

\* The state belongs to a run of mcp-agent, in progress or ended.
InRun == cmd = "agent"

RunEnded == InRun /\ pc \in {"completed", "exhausted", "aborted"}

\* The text parsed on iteration k.
ProcessedText(k) == messages[processed[k]].text

\* _process_agent_response has returned (or raised) on iteration k.
Handled(k) == k \in 1..Len(processed) /\ (k < Len(processed) \/ pc # "process")

\* The text holds an opening line of kind tag and a fence somewhere after it.
HasBlock(tag, text) ==
    LET opening == Fence \o tag \o <<"\n">>
    IN  \E i \in 1..(Len(text) - Len(opening)) :
            /\ text[i] = BQ
            /\ occurs_at(text, opening, i)
            /\ \E j \in (i + Len(opening))..Len(text) : occurs_at(text, Fence, j)

HasComplete(text) == HasBlock(TagComplete, text)

HasCommand(text) == HasBlock(TagCommand, text)

\* A handled response held a Complete block.
CompleteObserved == \E k \in 1..Len(processed) : Handled(k) /\ HasComplete(ProcessedText(k))

\* A remote query of the run failed.
QueryFailed == \E k \in 1..Len(log) : log[k].op = "send" /\ ~log[k].ok

Executed == {k \in 1..Len(log) : log[k].op = "exec"}

Contains(s, lit) == \E i \in 1..Len(s) : occurs_at(s, lit, i)

\* The command string is nothing but whitespace.
Blank(c) == \A i \in 1..Len(c) : c[i] \in Whitespace

\* The first whitespace-delimited token of c, lowercased, is on the denylist.
Denylisted(c) ==
    \E a \in 1..Len(c) : \E b \in a..Len(c) :
        /\ \A i \in 1..(a - 1) : c[i] \in Whitespace
        /\ \A i \in a..b : c[i] \notin Whitespace
        /\ b = Len(c) \/ c[b + 1] \in Whitespace
        /\ lower(SubSeq(c, a, b)) \in unsafe_commands

\* C1: a run with no failed query and no Complete block in any processed
\* response makes exactly max_iterations iterations and ends Exhausted; the
\* counter never passes max_iterations.
C1_ExhaustedAfterMaxIterations ==
    InRun =>
        /\ iteration <= max_iterations
        /\ Len(processed) <= max_iterations
        /\ (RunEnded /\ ~QueryFailed /\ ~CompleteObserved)
              => /\ pc = "exhausted"
                 /\ iteration = max_iterations
                 /\ Len(processed) = max_iterations

C1_Witness ==
    /\ InRun
    /\ pc = "exhausted"
    /\ iteration = max_iterations
    /\ ~CompleteObserved
    /\ ~QueryFailed

\* The first model response of the run has been obtained.
FirstObtained == InRun /\ Len(processed) >= 1

\* C2 as stated, read for the runs in which no query fails: when the first
\* response holds a Complete block, the run ends Completed after one iteration
\* and no debugger command is executed, whatever else the response holds.
C2_Original ==
    (FirstObtained /\ HasComplete(ProcessedText(1)) /\ Handled(1) /\ ~QueryFailed)
        => /\ pc = "completed"
           /\ iteration = 1
           /\ Executed = {}

\* C2 amended: when the first response holds a Complete block and no Command
\* block, the run ends Completed after one iteration, with no debugger command
\* executed and no further query; when it holds a Command block as well, the
\* run still makes one iteration only, and ends Completed unless the results
\* send fails.
C2_CompleteFirst ==
    (FirstObtained /\ HasComplete(ProcessedText(1)))
        => /\ iteration = 1
           /\ pc \in {"process", "completed", "aborted"}
           /\ ~HasCommand(ProcessedText(1))
                 => /\ Executed = {}
                    /\ Len(messages) = 4
                    /\ Handled(1) => pc = "completed"
           /\ pc = "aborted" => QueryFailed

C2_Witness ==
    /\ FirstObtained
    /\ HasComplete(ProcessedText(1))
    /\ ~HasCommand(ProcessedText(1))
    /\ pc = "completed"

\* C3 as stated: a run ends Completed (a Complete block was observed) or
\* Exhausted (the counter reached max_iterations), also after a failed query.
C3_Original ==
    RunEnded =>
        \/ pc = "completed" /\ CompleteObserved
        \/ pc = "exhausted" /\ iteration = max_iterations /\ ~CompleteObserved

\* C3 amended: a run in which no remote query fails ends in exactly one of
\* two ways, Completed with a Complete block observed, or Exhausted with the
\* counter at max_iterations and none observed; a run in which a query fails
\* ends in a third way, aborted by the error.
C3_ThreeEndings ==
    RunEnded =>
        /\ pc = "completed" <=> (~QueryFailed /\ CompleteObserved)
        /\ pc = "exhausted" <=> (~QueryFailed /\ ~CompleteObserved)
        /\ pc = "aborted" <=> QueryFailed
        /\ pc = "exhausted" => iteration = max_iterations

C3_Witness ==
    /\ RunEnded
    /\ pc = "aborted"
    /\ iteration > 1
    /\ Executed # {}

\* C4: the debugger is called only on commands the filter passed; a command
\* whose first token, lowercased, is denylisted is never executed, and its
\* rejection record is in the results text sent to the model.
C4_OnlySafeExecuted ==
    InRun =>
        LET executed == Executed
        IN  /\ \A k \in executed :
                  /\ is_safe_command(log[k].arg)
                  /\ ~Denylisted(log[k].arg)
                  /\ ~Blank(log[k].arg)
            /\ \A k \in 1..Len(processed) :
                  (Handled(k) /\ HasCommand(ProcessedText(k))) =>
                      LET lines == command_lines(re_search(TagCommand, ProcessedText(k)))
                          sent == messages[processed[k] + 1]
                      IN  \A n \in 1..Len(lines) :
                              Denylisted(lines[n]) =>
                                  /\ \A e \in executed : log[e].arg # strip(lines[n])
                                  /\ sent.role = "user"
                                  /\ Contains(sent.text, rejected_record(strip(lines[n])))

C4_Witness ==
    /\ InRun
    /\ \E k \in 1..Len(log) : log[k].op = "reject" /\ log[k].arg # lower(log[k].arg)
    /\ \E k \in 1..Len(log) : log[k].op = "reject" /\ log[k].arg = Quit
    /\ Executed # {}

\* The history index parsed last.
LastParsed == processed[Len(processed)]

\* C5: a response with a Command block and a Complete block has its commands
\* filtered and executed and the results sent before the run is marked
\* Completed; the loop is left at once, and the model's reply to the results,
\* the last message of the history, is never parsed.
C5_CommandsThenComplete ==
    \A k \in 1..Len(processed) :
        (InRun /\ Handled(k) /\ HasCommand(ProcessedText(k)) /\ HasComplete(ProcessedText(k)))
            => /\ k = Len(processed)
               /\ iteration = k
               /\ pc \in {"completed", "aborted"}
               /\ pc = "completed" =>
                     /\ Len(messages) = LastParsed + 2
                     /\ messages[LastParsed + 1].role = "user"
                     /\ occurs_at(messages[LastParsed + 1].text, LitResults, 1)
                     /\ messages[LastParsed + 2].role = "model"
                     /\ \A j \in 1..Len(processed) : processed[j] # LastParsed + 2
                     /\ log[Len(log)] = Event("show", TagComplete, TRUE)
                     /\ \E n \in 1..(Len(log) - 1) :
                           /\ log[n].op = "send" /\ log[n].ok
                           /\ \A m \in (n + 1)..Len(log) : log[m].op = "show"

C5_Witness ==
    /\ InRun
    /\ pc = "completed"
    /\ HasCommand(ProcessedText(Len(processed)))
    /\ Executed # {}
    /\ \E k \in 1..Len(log) : log[k].op = "reject"

\* C6: a failed remote query ends the run: it is the last thing the run did,
\* no iteration, command or query follows it, and its prompt was sent once.
C6_FailureAborts ==
    InRun =>
        /\ \A k \in 1..Len(log) :
              (log[k].op = "send" /\ ~log[k].ok) => (k = Len(log) /\ pc = "aborted")
        /\ pc = "aborted" =>
              /\ QueryFailed
              /\ lastQuery.made /\ ~reply_ok(lastQuery.reply)
              /\ Len(messages) = lastQuery.pre + 1
              /\ messages[Len(messages)] = [role |-> "user", text |-> lastQuery.prompt]
              /\ iteration = IF Len(log) = 1 THEN 1 ELSE Len(processed)

C6_Witness ==
    /\ InRun
    /\ pc = "aborted"
    /\ iteration = 1
    /\ processed = <<>>
    /\ lastQuery.reply.status = 200

\* C7: a successful query grows the history by the prompt as a user message
\* and the answer as a model message; a failed one by the user prompt alone.
C7_QueryGrowth ==
    lastQuery.made =>
        LET n == lastQuery.pre
        IN  IF reply_ok(lastQuery.reply)
            THEN /\ Len(messages) = n + 2
                 /\ messages[n + 1] = [role |-> "user", text |-> lastQuery.prompt]
                 /\ messages[n + 2] = [role |-> "model", text |-> lastQuery.reply.text]
            ELSE /\ Len(messages) = n + 1
                 /\ messages[n + 1] = [role |-> "user", text |-> lastQuery.prompt]

\* A failed mcp-ask repeated: the prompt is in the history twice.
C7_Witness ==
    /\ lastQuery.made
    /\ ~reply_ok(lastQuery.reply)
    /\ lastQuery.pre >= 1
    /\ messages[lastQuery.pre] = messages[lastQuery.pre + 1]

OneShots == {"ask", "explain", "fix"}

\* The history holds what this run put there and nothing else: the two
\* seeds, then per query its prompt and, if it succeeded, its answer.
OwnHistoryOnly ==
    /\ Len(messages) >= 2
    /\ messages[1] = [role |-> "user", text |-> LitSystem]
    /\ messages[2] = [role |-> "model", text |-> LitAck]
    /\ Len(messages) =
          2 + 2 * Cardinality({k \in 1..Len(log) : log[k].op = "send" /\ log[k].ok})
            + Cardinality({k \in 1..Len(log) : log[k].op = "send" /\ ~log[k].ok})

\* C8 as stated: every command that queries starts from a cleared history.
C8_Original ==
    /\ InRun => OwnHistoryOnly
    /\ (cmd \in OneShots /\ lastQuery.made) => lastQuery.pre = 0

\* C8 amended: the history is cleared at the start of every mcp-agent run, so
\* a run's queries carry no message of an earlier command; mcp-ask,
\* mcp-explain and mcp-fix clear nothing and send the history as they found it.
C8_ClearedByAgentOnly ==
    /\ [](InRun => OwnHistoryOnly)
    /\ [][cmd' \in OneShots =>
             /\ Len(messages') >= Len(messages)
             /\ SubSeq(messages', 1, Len(messages)) = messages]_vars

\* A one-shot command given after a run of mcp-agent that its first query
\* ended: the one-shot's query carries the run's three messages, the system
\* instruction, the acknowledgement and the request.
C8_Witness ==
    /\ cmd \in OneShots
    /\ lastQuery.made
    /\ lastQuery.pre = 3
    /\ messages[1] = [role |-> "user", text |-> LitSystem]
    /\ messages[2] = [role |-> "model", text |-> LitAck]
    /\ messages[3].role = "user"
    /\ messages[4] = [role |-> "user", text |-> lastQuery.prompt]

-----------------------------------------------------------------------------
(* Properties of is_safe_command (SpecSafe)                                *)

\* C9: is_safe_command(c) is false exactly when c is empty or all whitespace
\* or its first whitespace-delimited token, lowercased, is denylisted.
C9_SafeIffNotDenylisted ==
    tested => (safeOut = FALSE <=> (Blank(cmdIn) \/ Denylisted(cmdIn)))

C9_Witness ==
    /\ tested
    /\ ~safeOut
    /\ ~Blank(cmdIn)
    /\ cmdIn # lower(cmdIn)
    /\ strip(cmdIn) # cmdIn
    /\ Len(split(cmdIn)) > 1

-----------------------------------------------------------------------------
(* The role mapping                                                        *)

\* C10: the role mapping is total onto {user, model} and idempotent: applied
\* to a label it produced, it returns that label.
C10_RoleMappingIdempotent ==
    \A i \in 1..Len(messages) :
        /\ messages[i].role \in {"user", "model"}
        /\ gemini_role(messages[i].role) = messages[i].role

-----------------------------------------------------------------------------
(* Lines of a text, said without the str methods                           *)

\* Where the lines of e start.
LineStarts(e) == {p \in 1..(Len(e) + 1) : p = 1 \/ e[p - 1] = "\n"}

\* The line of e that starts at p, without its newline.
LineAt(e, p) ==
    LET q == CHOOSE n \in p..(Len(e) + 1) :
                 /\ n = Len(e) + 1 \/ e[n] = "\n"
                 /\ \A m \in p..(n - 1) : e[m] # "\n"
    IN  SubSeq(e, p, q - 1)

\* c is line without the whitespace around it.
TrimmedOf(c, line) ==
    \E a \in 1..Len(line) : \E b \in a..Len(line) :
        /\ c = SubSeq(line, a, b)
        /\ line[a] \notin Whitespace /\ line[b] \notin Whitespace
        /\ \A i \in 1..(a - 1) : line[i] \in Whitespace
        /\ \A i \in (b + 1)..Len(line) : line[i] \in Whitespace

\* acted is the non-blank lines of e, trimmed, in their order.
IsCommandList(acted, e) ==
    LET kept == {p \in LineStarts(e) : ~Blank(LineAt(e, p))}
    IN  /\ Len(acted) = Cardinality(kept)
        /\ \A p \in kept :
              TrimmedOf(acted[Cardinality({r \in kept : r <= p})], LineAt(e, p))

-----------------------------------------------------------------------------
(* Properties of the loop: what is parsed, and what a Command block causes *)

Sends == {k \in 1..Len(log) : log[k].op = "send"}

\* The responses handled so far, up to the k-th, that held a Command block.
CommandBlocksUpTo(k) ==
    {j \in 1..k : Handled(j) /\ HasCommand(ProcessedText(j))}

\* C13: on every iteration after the first the text parsed is the text of the
\* last message of the history, that message is the model's answer to the last
\* query (never a prompt of the controller), and the request of iteration 1 is
\* in the history once: no prompt is issued before the parsing.
C13_ReuseLastModelMessage ==
    (InRun /\ pc \in {"loop", "process"} /\ iteration >= 1) =>
        LET last == messages[Len(messages)]
        IN  /\ last.role = "model"
            /\ lastQuery.made /\ last.text = lastQuery.reply.text
            /\ Cardinality({i \in 1..Len(messages) : messages[i].text = user_request}) = 1
            /\ \A k \in 2..Len(processed) : messages[processed[k]].role = "model"
            /\ (pc = "process" /\ iteration > 1) =>
                  /\ LastParsed = Len(messages)
                  /\ response = last.text

\* Iteration 3, after two Command blocks: the reply to the second results
\* send is being parsed.
C13_Witness ==
    /\ InRun
    /\ pc = "process"
    /\ iteration = 3
    /\ processed = <<4, 6, 8>>
    /\ response = RespCommands

\* C14: processing a response issues one results send if it holds a Command
\* block, whatever the block's lines, and none otherwise; the send is the very
\* next message after the parsed one, and the counter still equals the number of
\* responses parsed.
C14_OneSendPerCommandBlock ==
    (InRun /\ Len(processed) >= 1) =>
        /\ iteration = Len(processed)
        /\ Cardinality(Sends) = 1 + Cardinality(CommandBlocksUpTo(Len(processed)))
        /\ \A k \in 1..Len(processed) :
              Handled(k) =>
                  LET after == IF k < Len(processed) THEN processed[k + 1] ELSE Len(messages)
                  IN  IF HasCommand(ProcessedText(k))
                      THEN /\ messages[processed[k] + 1].role = "user"
                           /\ occurs_at(messages[processed[k] + 1].text, LitResults, 1)
                           /\ after \in {processed[k] + 1, processed[k] + 2}
                      ELSE after = processed[k]

\* A Command block with no non-blank line was handled: its (empty) results
\* were sent all the same.
C14_Witness ==
    /\ InRun
    /\ Handled(1)
    /\ ProcessedText(1) = RespBlankCommands
    /\ Cardinality(Sends) = 2
    /\ messages[5].text = LitResults
    /\ iteration = 1

\* The log index of the n-th query of the run.
SendIdx(n) ==
    LET sends == Sends
    IN  CHOOSE i \in sends : Cardinality({j \in sends : j <= i}) = n

IsCommandEvent(e) == e.op \in {"exec", "reject"}

\* What was done to the commands between the (n-1)-th and the n-th query.
CommandEvents(n) ==
    SelectSeq(SubSeq(log, SendIdx(n - 1) + 1, SendIdx(n) - 1), IsCommandEvent)

\* The record that the handling of one command leaves in results.
RecordOf(e) ==
    IF e.op = "exec"
    THEN executed_record(e.arg, IF e.ok THEN LitGdbOutput ELSE LitExecError)
    ELSE rejected_record(e.arg)

\* C15: the commands of a Command block are handled in their textual order,
\* one record each, all of them before the block's results are sent, and the
\* results text sent lists the records in that order.
C15_CommandsInOrder ==
    InRun =>
        /\ \A i \in 1..Len(log) :
              IsCommandEvent(log[i]) => \E n \in Sends : n > i
        /\ \A k \in 1..Len(processed) :
              (Handled(k) /\ HasCommand(ProcessedText(k))) =>
                  LET evs == CommandEvents(1 + Cardinality(CommandBlocksUpTo(k)))
                      group == re_search(TagCommand, ProcessedText(k)).group
                  IN  /\ IsCommandList([i \in 1..Len(evs) |-> evs[i].arg], group)
                      /\ messages[processed[k] + 1].text =
                             LitResults \o join([i \in 1..Len(evs) |-> RecordOf(evs[i])],
                                                <<"\n", "\n">>)

\* Two blocks handled; in one a command met a gdb.error and another was
\* rejected.
C15_Witness ==
    /\ InRun
    /\ Cardinality(Sends) = 3
    /\ Len(CommandEvents(3)) = 2
    /\ \E i \in 1..Len(log) : log[i].op = "exec" /\ ~log[i].ok
    /\ \E i \in 1..Len(log) : log[i].op = "reject"

\* C16: within a run the counter stays in 0..max_iterations and moves by +1
\* steps only, and the history only grows: every step of the run keeps the
\* messages it found, in place and unaltered.
C16_CounterAndHistoryGrow ==
    /\ [](InRun => iteration \in 0..max_iterations)
    /\ [][(InRun /\ pc \in {"loop", "process"}) =>
             /\ iteration' \in {iteration, iteration + 1}
             /\ Len(messages') >= Len(messages)
             /\ SubSeq(messages', 1, Len(messages)) = messages]_vars

\* The last iteration, reached through nine Command blocks.
C16_Witness ==
    /\ InRun
    /\ pc = "process"
    /\ iteration = max_iterations
    /\ Len(messages) = 2 + 2 * max_iterations

Notices == {k \in 1..Len(log) : log[k].op = "notice"}

\* The response of the max_iterations-th iteration was taken up for
\* processing and holds no Complete block.
LastWithoutComplete ==
    /\ iteration = max_iterations
    /\ Handled(max_iterations)
    /\ ~HasComplete(ProcessedText(max_iterations))

\* C17 as stated: the notice is emitted, and the run ends Exhausted, exactly
\* when the counter has reached max_iterations and the response processed on
\* that iteration holds no Complete block.
C17_Original ==
    InRun =>
        /\ Notices # {} <=> LastWithoutComplete
        /\ RunEnded => (pc = "exhausted" <=> LastWithoutComplete)

\* C17 amended: the notice is emitted, and the run ends Exhausted, exactly
\* when the counter has reached max_iterations, the response processed on that
\* iteration holds no Complete block and its results send, if it made one, did
\* not fail; a Complete block on that iteration ends the run Completed with no
\* notice (again unless the send fails); the notice is emitted at most once,
\* as the last thing the run does.
C17_ExhaustedNotice ==
    InRun =>
        /\ Cardinality(Notices) <= 1
        /\ Notices # {} <=> (LastWithoutComplete /\ ~QueryFailed)
        /\ Notices # {} => log[Len(log)].op = "notice"
        /\ RunEnded => (pc = "exhausted" <=> (LastWithoutComplete /\ ~QueryFailed))
        /\ (Handled(max_iterations) /\ HasComplete(ProcessedText(max_iterations))
              /\ ~QueryFailed)
              => (pc = "completed" /\ Notices = {})

\* A Complete block that comes on the last iteration: Completed, no notice.
C17_Witness ==
    /\ InRun
    /\ pc = "completed"
    /\ iteration = max_iterations
    /\ Notices = {}

\* The k-th response handled held neither a Command nor a Complete block.
Stuck(k) ==
    /\ Handled(k)
    /\ ~HasCommand(ProcessedText(k))
    /\ ~HasComplete(ProcessedText(k))

\* C18: once a response with neither a Command nor a Complete block has been
\* handled, every later iteration parses that same message, which stays the
\* last of the history; no query is made and no command handled after it, and
\* the run ends Exhausted after max_iterations iterations.
C18_StuckUntilExhausted ==
    InRun =>
        \A k \in 1..Len(processed) :
            Stuck(k) =>
                /\ \A j \in k..Len(processed) : processed[j] = processed[k]
                /\ Len(messages) = processed[k]
                /\ lastQuery.pre + 2 = processed[k]
                /\ messages[processed[k]] = [role |-> "model", text |-> lastQuery.reply.text]
                /\ pc = "process" => response = lastQuery.reply.text
                /\ Cardinality(Sends) = 1 + Cardinality(CommandBlocksUpTo(k))
                /\ \A i \in 1..Len(log) : IsCommandEvent(log[i]) => \E n \in Sends : n > i
                /\ pc \in {"loop", "process", "exhausted"}
                /\ pc = "exhausted" =>
                      (iteration = max_iterations /\ Len(processed) = max_iterations)

\* A run that handled one Command block, then got stuck on the reply and
\* parsed it nine times.
C18_Witness ==
    /\ InRun
    /\ pc = "exhausted"
    /\ Len(processed) = max_iterations
    /\ processed[1] = 4
    /\ processed[2] = 6
    /\ processed[max_iterations] = 6
    /\ Executed # {}

\* C19: after a response with a Command block the next iteration parses a
\* later message of the history, so no message with a Command block is parsed
\* twice, and there is one results send per such message.
C19_NoBlockTwice ==
    InRun =>
        /\ \A k \in 1..(Len(processed) - 1) :
              HasCommand(ProcessedText(k)) => processed[k + 1] > processed[k]
        /\ \A i \in 1..Len(processed) : \A j \in (i + 1)..Len(processed) :
              HasCommand(ProcessedText(i)) => processed[i] # processed[j]
        /\ Sends # {} =>
              Cardinality(Sends) - 1 =
                 Cardinality({processed[k] : k \in CommandBlocksUpTo(Len(processed))})

\* Four Command blocks in a row, the last with a Complete block.
C19_Witness ==
    /\ InRun
    /\ pc = "completed"
    /\ processed = <<4, 6, 8, 10>>
    /\ Cardinality(Executed) = 4

\* C20: a run makes at most 1 + max_iterations queries, its history holds at
\* most 2 + 2 * (1 + max_iterations) messages, and the history alternates
\* user, model, user, model from the system instruction on.
C20_QueriesAndHistoryBounded ==
    InRun =>
        /\ Cardinality(Sends) <= 1 + max_iterations
        /\ Len(messages) <= 2 + 2 * (1 + max_iterations)
        /\ messages[1].text = LitSystem
        /\ \A i \in 1..Len(messages) :
              messages[i].role = IF i % 2 = 1 THEN "user" ELSE "model"

\* Both bounds are met: ten Command blocks, eleven queries, 24 messages.
C20_Witness ==
    /\ InRun
    /\ Cardinality(Sends) = 1 + max_iterations
    /\ Len(messages) = 2 + 2 * (1 + max_iterations)

-----------------------------------------------------------------------------
(* Properties of the parsing (SpecParse)                                   *)

Tags == {TagCommand, TagAnalysis, TagNextStep, TagComplete}

\* What the search for tag found in the parsed text.
FoundKind(tag) ==
    CASE tag = TagCommand -> parseOut.found.command
      [] tag = TagAnalysis -> parseOut.found.analysis
      [] tag = TagNextStep -> parseOut.found.next_step
      [] tag = TagComplete -> parseOut.found.complete

FenceAt(text, j) == occurs_at(text, Fence, j)

\* The fence at j is followed by a tag name: it opens a tagged block.
OpensBlock(text, j) == FenceAt(text, j) /\ \E t \in Tags : occurs_at(text, t, j + Len(Fence))

\* The block of kind tag opened at i has a closing fence of its own: the first
\* fence after its opening line is a bare fence, not the opening of a block.
Terminated(text, tag, i) ==
    LET from == i + Len(Fence) + Len(tag) + 1
    IN  /\ occurs_at(text, Fence \o tag \o <<"\n">>, i)
        /\ \E j \in from..Len(text) :
              /\ FenceAt(text, j)
              /\ ~OpensBlock(text, j)
              /\ \A m \in from..(j - 1) : ~FenceAt(text, m)

\* C11: a text with no tag delimiter yields no block, and a block is found
\* for a kind only if the text holds a block of that kind closed by a fence of
\* its own: an opening whose next fence is the opening of another tagged block
\* contributes nothing.
C11_UnterminatedYieldsNothing ==
    parseOut.done =>
        /\ (\A t \in Tags : ~Contains(parseIn, Fence \o t))
              => \A t \in Tags : ~FoundKind(t).found
        /\ \A t \in Tags :
              FoundKind(t).found => \E i \in 1..Len(parseIn) : Terminated(parseIn, t, i)

\* C12: the commands acted on are the lines of the text enclosed by the first
\* gdb-command block (from the leftmost opening that a later fence closes to
\* the first fence after it), trimmed, the blank ones dropped, in their order;
\* nothing of a later gdb-command block is among them.
C12_FirstBlockLines ==
    (parseOut.done /\ parseOut.found.command.found) =>
        \E i \in 1..Len(parseIn) : \E j \in (i + Len(OpenCommand))..Len(parseIn) :
            /\ occurs_at(parseIn, OpenCommand, i)
            /\ FenceAt(parseIn, j)
            /\ \A m \in (i + Len(OpenCommand))..(j - 1) : ~FenceAt(parseIn, m)
            /\ \A h \in 1..(i - 1) :
                  occurs_at(parseIn, OpenCommand, h)
                      => \A m \in (h + Len(OpenCommand))..Len(parseIn) : ~FenceAt(parseIn, m)
            /\ IsCommandList(parseOut.acted, SubSeq(parseIn, i + Len(OpenCommand), j - 1))

\* A block of three lines, one blank, followed by a second Command block.
C12_Witness ==
    /\ parseOut.done
    /\ parseOut.acted = << <<"b", "t">>, <<"u", "p">> >>
    /\ occurs_at(parseIn, BlockThreeLines \o BlockQuit, 1)

====
